---- MODULE Spec2Model ----
(***************************************************************************)
(* rClip: a gain stage followed by a hard or soft clipper, with smoothed   *)
(* gain and threshold parameters (src/lib.rs).                             *)
(*                                                                         *)
(* Numbers.  An f32 is modelled as a small binary floating-point format:   *)
(* the integer n stands for n / One, and a number is representable when it *)
(* has at most SigBits significant bits (the integers below 2^SigBits are  *)
(* the subnormals).  Every arithmetic result is rounded to the nearest     *)
(* representable value, ties to even; a rounded result beyond MaxFinite is *)
(* an infinity; the invalid operations of IEEE 754 (0/0, inf/inf, inf*0,   *)
(* inf-inf) give NaN.  The special values are integers outside the finite  *)
(* range, so that the order on the integers is the order on the non-NaN    *)
(* floats.  Signed zeros are not distinguished.  The format has 4          *)
(* significant bits where f32 has 24, so rounding shows at smaller         *)
(* magnitudes than in the build, but it is the same rounding: tanh rounds  *)
(* to exactly 1.0 from 2.25 on here and from about 9.01 on in f32.         *)
(*                                                                         *)
(* Decibel values (the smoothers' domain) are integers, in whole dB.       *)
(***************************************************************************)
EXTENDS Integers, Sequences, FiniteSets

\* ------------------------------------------------------------------ f32

SigBits == 4
One == 1024
MaxFinite == 30720
PInf == MaxFinite + 1
NInf == 0 - PInf
NaN == MaxFinite + 2
\* what a call that panicked "returns": the value is never produced
Panicked == MaxFinite + 3

IsNaN(x) == x = NaN
IsInf(x) == x = PInf \/ x = NInf
IsFinite(x) == x >= 0 - MaxFinite /\ x <= MaxFinite

Sign(x) == IF x < 0 THEN 0 - 1 ELSE 1
Abs(x) == IF x < 0 THEN 0 - x ELSE x

\* n / d for d > 0, rounded to the nearest integer, ties to even
RoundDiv(n, d) ==
    LET q == n \div d
        r == n % d
    IN  IF 2 * r < d THEN q
        ELSE IF 2 * r > d THEN q + 1
        ELSE IF q % 2 = 0 THEN q ELSE q + 1

\* n / d for d > 0, rounded to SigBits significant bits: to a multiple of
\* 2^k for the least k that leaves fewer than 2^SigBits multiples
RECURSIVE RoundSigFrom(_, _, _)
RoundSigFrom(n, d, k) ==
    IF Abs(n) < d * 2^SigBits * 2^k
    THEN RoundDiv(n, d * 2^k) * 2^k
    ELSE RoundSigFrom(n, d, k + 1)

RoundSig(n, d) == RoundSigFrom(n, d, 0)

\* a rounded result that left the finite range is an infinity
Overflow(n) == IF n > MaxFinite THEN PInf ELSE IF n < 0 - MaxFinite THEN NInf ELSE n

FNeg(a) == IF IsNaN(a) THEN NaN ELSE 0 - a

FAbs(a) == IF IsNaN(a) THEN NaN ELSE Abs(a)

FMul(a, b) ==
    IF IsNaN(a) \/ IsNaN(b) THEN NaN
    ELSE IF IsInf(a) \/ IsInf(b)
         THEN IF a = 0 \/ b = 0 THEN NaN ELSE Sign(a) * Sign(b) * PInf
         ELSE Overflow(RoundSig(a * b, One))

FDiv(a, b) ==
    IF IsNaN(a) \/ IsNaN(b) THEN NaN
    ELSE IF IsInf(a) THEN (IF IsInf(b) THEN NaN ELSE Sign(a) * Sign(b) * PInf)
    ELSE IF IsInf(b) THEN 0
    ELSE IF b = 0 THEN (IF a = 0 THEN NaN ELSE Sign(a) * PInf)
    ELSE Overflow(RoundSig(Sign(b) * a * One, Abs(b)))

FSub(a, b) ==
    IF IsNaN(a) \/ IsNaN(b) THEN NaN
    ELSE IF IsInf(a) THEN (IF a = b THEN NaN ELSE a)
    ELSE IF IsInf(b) THEN 0 - b
    ELSE Overflow(RoundSig(a - b, 1))

\* f32::max ignores a NaN operand
FMax(a, b) ==
    IF IsNaN(a) THEN b
    ELSE IF IsNaN(b) THEN a
    ELSE IF a >= b THEN a ELSE b

\* a <= b on floats: false when either is NaN
FLe(a, b) == ~IsNaN(a) /\ ~IsNaN(b) /\ a <= b

\* a < b on floats: false when either is NaN
FLt(a, b) == ~IsNaN(a) /\ ~IsNaN(b) /\ a < b

\* f32::clamp asserts min <= max (which also fails for a NaN bound) and
\* panics otherwise; a NaN self is returned as it is
FClamp(x, lo, hi) ==
    IF ~FLe(lo, hi) THEN Panicked
    ELSE IF IsNaN(x) THEN NaN
    ELSE IF x < lo THEN lo
    ELSE IF x > hi THEN hi
    ELSE x

\* the positive representable numbers below TanhSat, in increasing order
TanhArg ==
    <<
       1, 2, 3, 4, 5, 6, 7, 8, 9, 10, 11, 12, 13, 14, 15, 16, 18, 20, 22,
       24, 26, 28, 30, 32, 36, 40, 44, 48, 52, 56, 60, 64, 72, 80, 88, 96,
       104, 112, 120, 128, 144, 160, 176, 192, 208, 224, 240, 256, 288,
       320, 352, 384, 416, 448, 480, 512, 576, 640, 704, 768, 832, 896,
       960, 1024, 1152, 1280, 1408, 1536, 1664, 1792, 1920, 2048 >>

\* TanhVal[i] is One * tanh(TanhArg[i] / One), rounded to nearest
TanhVal ==
    <<
       1, 2, 3, 4, 5, 6, 7, 8, 9, 10, 11, 12, 13, 14, 15, 16, 18, 20, 22,
       24, 26, 28, 30, 32, 36, 40, 44, 48, 52, 56, 60, 64, 72, 80, 88, 96,
       104, 112, 120, 128, 144, 160, 176, 192, 208, 224, 240, 256, 288,
       320, 352, 352, 384, 416, 448, 480, 512, 576, 640, 640, 704, 704,
       768, 768, 832, 896, 896, 896, 960, 960, 960, 960 >>

\* from here on the rounded value of tanh is exactly 1.0
TanhSat == 2304

FTanh(x) ==
    IF IsNaN(x) THEN NaN
    ELSE IF x = 0 THEN 0
    ELSE IF Abs(x) >= TanhSat THEN Sign(x) * One
    ELSE LET i == CHOOSE j \in 1 .. Len(TanhArg) : TanhArg[j] = Abs(x)
         IN  Sign(x) * TanhVal[i]

\* the literal 1.0e-12: a small positive normal number, below every
\* ceiling a threshold of the range can give
Epsilon == 16

\* ------------------------------------------------- the clipping functions

ClippingModes == {"HardClip", "SoftClip"}

\* the floor left out: the ceiling is used as it comes
hard_clip_ceiling_unfloored(ceiling) == ceiling

hard_clip_ceiling(ceiling) == FMax(ceiling, Epsilon)

\* only the upper bound is enforced
hard_clip_upper_only(signal, ceiling) ==
    LET c == hard_clip_ceiling(ceiling)
    IN  IF FLt(c, signal) THEN c ELSE signal

\* the lower bound is 0.0 instead of -ceiling
hard_clip_rectify(signal, ceiling) ==
    LET c == hard_clip_ceiling(ceiling)
    IN  FClamp(signal, 0, c)

hard_clip(signal, ceiling) ==
    LET c == hard_clip_ceiling(ceiling)
    IN  FClamp(signal, FNeg(c), c)

soft_clip_ceiling(ceiling) == FMax(ceiling, Epsilon)

\* the product with the ceiling left out
soft_clip_unscaled(signal, ceiling) ==
    LET c == soft_clip_ceiling(ceiling)
    IN  FTanh(FDiv(signal, c))

soft_clip(signal, ceiling) ==
    LET c == soft_clip_ceiling(ceiling)
        x == FTanh(FDiv(signal, c))
    IN  FMul(x, c)

\* let signal = dry * gain
Signal(dry, gain) == FMul(dry, gain)

\* let wet = match mode { ... }
Wet(dry, gain, ceiling, mode) ==
    IF mode = "HardClip" THEN hard_clip(Signal(dry, gain), ceiling)
    ELSE soft_clip(Signal(dry, gain), ceiling)

\* the difference taken the wrong way round
Output_reversed(wet, dry, delta) ==
    IF wet = Panicked THEN Panicked
    ELSE IF delta THEN FSub(dry, wet) ELSE wet

\* *sample = if delta { wet - dry } else { wet }; a panic in the clamp
\* unwinds before the store
Output(wet, dry, delta) ==
    IF wet = Panicked THEN Panicked
    ELSE IF delta THEN FSub(wet, dry) ELSE wet

\* the body of the inner loop: the value written back for one sample
Transform(dry, gain, ceiling, mode, delta) ==
    Output(Wet(dry, gain, ceiling, mode), dry, delta)

\* ------------------------------------------------------------ parameters

\* FloatRange::Linear { min, max } and the default of each FloatParam, in dB
GainMin == -12
GainMax == 12
GainDefault == 0
ThresholdMin == -24
ThresholdMax == 0
\* a default above the range
ThresholdDefault_high == ThresholdMax + 6
ThresholdDefault == 0

\* .with_smoother(SmoothingStyle::Linear(50.0)); a parameter built without
\* with_smoother has SmoothingStyle::None
GainSmoothingStyle_none == "None"
GainSmoothingStyle == "Linear"
ThresholdSmoothingStyle == "Linear"

\* EnumParam::new("Mode", ClippingModes::HardClip), BoolParam::new("Delta", false)
ModeDefault == "HardClip"
DeltaDefault == FALSE

ParamIds == {"gain", "threshold"}

Range ==
    [gain |-> [min |-> GainMin, max |-> GainMax, default |-> GainDefault,
               style |-> GainSmoothingStyle],
     threshold |-> [min |-> ThresholdMin, max |-> ThresholdMax,
                    default |-> ThresholdDefault, style |-> ThresholdSmoothingStyle]]

\* main_input_channels of the two AUDIO_IO_LAYOUTS
ChannelCounts == {1, 2}

\* ----------------------------------------------------------------- bounds

\* samples in 50 ms at the configured sample rate (the length of a ramp)
RampSteps == 3
\* frames in one buffer
MaxFrames == 2
\* target changes made by the host or the editor
MaxRetargets == 2

\* values the host may try to set a parameter to, in dB (some out of range)
TargetInputs == {-30, -12, 0, 6, 18}
\* samples found in the buffer
BufferSamples == {-3072, 256}

\* ------------------------------------------------------------ db_to_gain

DbLow == -36
\* One * 10^(db / 20) rounded to nearest, for db = DbLow .. DbLow + 60
GainTable ==
    <<
       16, 18, 20, 22, 26, 28, 32, 36, 40, 44, 52, 56, 64, 72, 80, 88, 104,
       112, 128, 144, 160, 176, 208, 224, 256, 288, 320, 352, 416, 448,
       512, 576, 640, 704, 832, 896, 1024, 1152, 1280, 1408, 1664, 1792,
       2048, 2304, 2560, 2816, 3328, 3584, 4096, 4608, 5120, 5632, 6656,
       7168, 8192, 9216, 10240, 11264, 13312, 14336, 16384 >>

db_to_gain(db) == GainTable[db - DbLow + 1]

\* -------------------------------------------------------------- smoother

\* the number of next() calls a ramp takes
num_steps(style) == IF style = "Linear" THEN RampSteps ELSE 0

\* a parameter value set from outside is clamped to the range
ClampPlain(p, v) ==
    IF v < Range[p].min THEN Range[p].min
    ELSE IF v > Range[p].max THEN Range[p].max
    ELSE v

\* the new ramp starts over from the target of the one it interrupts
set_target_restart(p, s, target) ==
    [current |-> s.target, target |-> target,
     steps_left |-> num_steps(Range[p].style)]

\* a new target: the ramp restarts from the value reached
set_target(p, s, target) ==
    [current |-> s.current, target |-> target,
     steps_left |-> num_steps(Range[p].style)]

\* one step of the ramp; the last step lands on the target itself
next(s) ==
    IF s.steps_left <= 1
    THEN [current |-> s.target, target |-> s.target, steps_left |-> 0]
    ELSE [current |-> s.current + RoundDiv(s.target - s.current, s.steps_left),
          target |-> s.target, steps_left |-> s.steps_left - 1]

\* ----------------------------------------------------------------- state

VARIABLES
    params,     \* the mode and delta parameters, shared with the other threads
    smoothed,   \* per smoothed parameter: current, target, steps_left
    pc,         \* where the audio thread is in process()
    loc,        \* the locals of process(): delta, mode, gain, ceiling, loop indices
    last,       \* a call of the sample transform on its own: arguments, result
    ramp,       \* history, per smoothed parameter, of the ramp in progress
    blk,        \* the block in progress: next() calls counted, the samples of
                \* the current frame handled so far, the parameters read at its
                \* start, whether a sample was handled after they had changed
    retargets   \* target changes so far

vars == << params, smoothed, pc, loc, last, ramp, blk, retargets >>

NoSample ==
    [applied |-> FALSE, dry |-> 0, gain |-> One, ceiling |-> One,
     mode |-> ModeDefault, delta |-> DeltaDefault, out |-> 0]

\* outside process() its locals do not exist
NoLocals ==
    [delta |-> FALSE, mode |-> "HardClip", gain |-> One, ceiling |-> One,
     nframes |-> 0, nchannels |-> 1, f |-> 0, ch |-> 0]

NoBlock ==
    [adv |-> [p \in ParamIds |-> 0], used |-> << >>, overtaken |-> FALSE,
     at_start |-> [mode |-> ModeDefault, delta |-> DeltaDefault]]

InitProcessor ==
    /\ params = [mode |-> ModeDefault, delta |-> DeltaDefault]
    /\ smoothed = [p \in ParamIds |->
                      [current |-> Range[p].default, target |-> Range[p].default,
                       steps_left |-> 0]]
    /\ pc = "idle"
    /\ loc = NoLocals
    /\ ramp = [p \in ParamIds |->
                  [kind |-> "none", from |-> Range[p].default,
                   calls |-> 0, ret |-> Range[p].default, prev |-> Range[p].default]]
    /\ blk = NoBlock
    /\ retargets = 0

Init ==
    /\ InitProcessor
    /\ last = NoSample

\* ------------------------------------------------- the other threads

\* the host or the editor changes the mode
SetMode(m) ==
    /\ m # params.mode
    /\ params' = [params EXCEPT !.mode = m]
    /\ UNCHANGED << smoothed, pc, loc, last, ramp, blk, retargets >>

\* the host or the editor toggles delta
SetDelta(d) ==
    /\ d # params.delta
    /\ params' = [params EXCEPT !.delta = d]
    /\ UNCHANGED << smoothed, pc, loc, last, ramp, blk, retargets >>

\* the host or the editor sets gain or threshold to v: the value is clamped
\* and becomes the smoother's target
Retarget(p, v) ==
    /\ retargets < MaxRetargets
    /\ retargets' = retargets + 1
    /\ smoothed' = [smoothed EXCEPT ![p] = set_target(p, @, ClampPlain(p, v))]
    /\ ramp' = [ramp EXCEPT ![p] =
                   [kind |-> IF smoothed[p].steps_left > 0 THEN "mid" ELSE "rest",
                    from |-> @.ret,
                    calls |-> 0, ret |-> @.ret, prev |-> @.ret]]
    /\ UNCHANGED << params, pc, loc, last, blk >>

\* ---------------------------------------------------------- process()

\* the ramp history after one more next() call that returned v
Returned(h, v) ==
    [h EXCEPT !.prev = h.ret, !.ret = v,
              !.calls = IF h.calls < RampSteps + 1 THEN h.calls + 1 ELSE h.calls]

\* the host calls process() with a buffer of nf frames of nc channels
ProcessCall(nf, nc) ==
    /\ pc = "idle"
    /\ pc' = "delta"
    /\ loc' = [loc EXCEPT !.nframes = nf, !.nchannels = nc, !.f = 0, !.ch = 0]
    /\ blk' = NoBlock
    /\ UNCHANGED << params, smoothed, last, ramp, retargets >>

\* let delta = self.params.delta.value()
ReadDelta ==
    /\ pc = "delta"
    /\ pc' = "mode"
    /\ loc' = [loc EXCEPT !.delta = params.delta]
    /\ blk' = [blk EXCEPT !.at_start.delta = params.delta]
    /\ UNCHANGED << params, smoothed, last, ramp, retargets >>

\* let mode = self.params.mode.value(); then the loop over the frames starts
ReadMode ==
    /\ pc = "mode"
    /\ pc' = IF loc.nframes = 0 THEN "return" ELSE "gain"
    /\ loc' = [loc EXCEPT !.mode = params.mode]
    /\ blk' = [blk EXCEPT !.at_start.mode = params.mode]
    /\ UNCHANGED << params, smoothed, last, ramp, retargets >>

\* the gain smoother is stepped twice for one frame
NextGain_twice ==
    /\ pc = "gain"
    /\ pc' = "threshold"
    /\ smoothed' = [smoothed EXCEPT !.gain = next(next(@))]
    /\ loc' = [loc EXCEPT !.gain = db_to_gain(smoothed'.gain.current)]
    /\ ramp' = [ramp EXCEPT !.gain =
                   Returned(Returned(@, next(smoothed.gain).current),
                            smoothed'.gain.current)]
    /\ blk' = [blk EXCEPT !.adv.gain = @ + 2, !.used = << >>]
    /\ UNCHANGED << params, last, retargets >>

\* let gain = db_to_gain(self.params.gain.smoothed.next())
NextGain ==
    /\ pc = "gain"
    /\ pc' = "threshold"
    /\ smoothed' = [smoothed EXCEPT !.gain = next(@)]
    /\ loc' = [loc EXCEPT !.gain = db_to_gain(smoothed'.gain.current)]
    /\ ramp' = [ramp EXCEPT !.gain = Returned(@, smoothed'.gain.current)]
    /\ blk' = [blk EXCEPT !.adv.gain = @ + 1, !.used = << >>]
    /\ UNCHANGED << params, last, retargets >>

\* let ceiling = db_to_gain(self.params.threshold.smoothed.next())
NextThreshold ==
    /\ pc = "threshold"
    /\ pc' = "sample"
    /\ smoothed' = [smoothed EXCEPT !.threshold = next(@)]
    /\ loc' = [loc EXCEPT !.ceiling = db_to_gain(smoothed'.threshold.current),
                          !.ch = 0]
    /\ ramp' = [ramp EXCEPT !.threshold = Returned(@, smoothed'.threshold.current)]
    /\ blk' = [blk EXCEPT !.adv.threshold = @ + 1]
    /\ UNCHANGED << params, last, retargets >>

\* another thread has changed both the mode and delta since process() read them
Overtaken ==
    params.mode # blk.at_start.mode /\ params.delta # blk.at_start.delta

\* one pass of the inner loop on a sample dry, with the values it uses;
\* after the frame's last channel the outer loop goes on or process returns
ProcessSampleWith(dry, gain, ceiling, mode, delta) ==
    LET out == Transform(dry, gain, ceiling, mode, delta)
        frame_done == loc.ch + 1 = loc.nchannels
    IN  /\ pc = "sample"
        /\ blk' = [blk EXCEPT !.used = Append(@,
                       [dry |-> dry, gain |-> gain, ceiling |-> ceiling,
                        mode |-> mode, delta |-> delta, out |-> out]),
                              !.overtaken = @ \/ Overtaken]
        /\ loc' = [loc EXCEPT !.ch = IF frame_done THEN 0 ELSE @ + 1,
                              !.f = IF frame_done THEN @ + 1 ELSE @]
        /\ pc' = IF out = Panicked THEN "panicked"
                 ELSE IF ~frame_done THEN "sample"
                 ELSE IF loc.f + 1 = loc.nframes THEN "return"
                 ELSE "gain"
        /\ UNCHANGED << params, smoothed, last, ramp, retargets >>

\* the parameters are read again for every sample
ProcessSample_live(dry) ==
    ProcessSampleWith(dry, loc.gain, loc.ceiling, params.mode, params.delta)

ProcessSample(dry) ==
    ProcessSampleWith(dry, loc.gain, loc.ceiling, loc.mode, loc.delta)

\* ProcessStatus::Normal: process returns and the buffer goes back to the host
ProcessReturn ==
    /\ pc = "return"
    /\ pc' = "idle"
    /\ loc' = NoLocals
    /\ blk' = NoBlock
    /\ UNCHANGED << params, smoothed, last, ramp, retargets >>

\* the processor with every other thread at work
Next ==
    \/ \E m \in ClippingModes : SetMode(m)
    \/ \E d \in BOOLEAN : SetDelta(d)
    \/ \E p \in ParamIds, v \in TargetInputs : Retarget(p, v)
    \/ \E nf \in 0 .. MaxFrames, nc \in ChannelCounts : ProcessCall(nf, nc)
    \/ ReadDelta
    \/ ReadMode
    \/ NextGain
    \/ NextThreshold
    \/ \E dry \in BufferSamples : ProcessSample(dry)
    \/ ProcessReturn

Spec == Init /\ [][Next]_vars

\* the processor while gain and threshold are automated and nobody touches
\* the mode and delta
NextSmoothing ==
    \/ \E p \in ParamIds, v \in TargetInputs : Retarget(p, v)
    \/ \E nf \in 0 .. MaxFrames, nc \in ChannelCounts : ProcessCall(nf, nc)
    \/ ReadDelta
    \/ ReadMode
    \/ NextGain
    \/ NextThreshold
    \/ \E dry \in BufferSamples : ProcessSample(dry)
    \/ ProcessReturn

SpecSmoothing == Init /\ [][NextSmoothing]_vars

\* the processor while the mode and delta are switched and gain and threshold
\* rest at their defaults
NextSwitching ==
    \/ \E m \in ClippingModes : SetMode(m)
    \/ \E d \in BOOLEAN : SetDelta(d)
    \/ \E nf \in 0 .. MaxFrames, nc \in ChannelCounts : ProcessCall(nf, nc)
    \/ ReadDelta
    \/ ReadMode
    \/ NextGain
    \/ NextThreshold
    \/ \E dry \in BufferSamples : ProcessSample(dry)
    \/ ProcessReturn

SpecSwitching == Init /\ [][NextSwitching]_vars

\* ------------------------------------- the sample transform on its own

\* arguments the transform is tried on: samples up to the largest finite
\* value, gains of the gain range, ceilings including zero and negative ones
DrySamples == {0 - MaxFinite, -3072, -1024, -104, 0, 1, 104, 1024, 3072, MaxFinite}
LinearGains == {db_to_gain(GainMin), 512, One, 2048, db_to_gain(GainMax)}
LinearCeilings == {0 - One, 0, Epsilon, db_to_gain(ThresholdMin), 512, One, 2048}

InitTransform ==
    /\ InitProcessor
    /\ last \in [applied : {FALSE}, dry : DrySamples, gain : LinearGains,
                 ceiling : LinearCeilings, mode : ClippingModes,
                 delta : BOOLEAN, out : {0}]

\* the transform is applied to the arguments drawn
Apply ==
    /\ ~last.applied
    /\ last' = [last EXCEPT !.applied = TRUE,
                   !.out = Transform(last.dry, last.gain, last.ceiling,
                                     last.mode, last.delta)]
    /\ UNCHANGED << params, smoothed, pc, loc, ramp, blk, retargets >>

NextTransform == Apply

SpecTransform == InitTransform /\ [][NextTransform]_vars

\* ------------------------------------------ claims on the sample transform

LastSignal == Signal(last.dry, last.gain)
LastWet == Wet(last.dry, last.gain, last.ceiling, last.mode)

\* C1 as stated: with mode = HardClip the magnitude of the value written back
\* is at most the ceiling, whatever the delta flag (stated here for the
\* ceilings of at least 1e-12, as every ceiling derived from a threshold is)
C1_AsStated ==
    (last.applied /\ last.mode = "HardClip" /\ last.ceiling >= Epsilon)
        => FLe(FAbs(last.out), last.ceiling)

\* C1, amended: with mode = HardClip and the delta flag clear, the magnitude of
\* the value written back is at most the ceiling in use, max(ceiling, 1e-12)
C1_HardClipBound ==
    (last.applied /\ last.mode = "HardClip" /\ ~last.delta)
        => FLe(FAbs(last.out), FMax(last.ceiling, Epsilon))

\* a signal beyond the ceiling on the negative side was clipped to -ceiling
C1_Witness ==
    /\ last.applied /\ last.mode = "HardClip" /\ ~last.delta
    /\ last.ceiling >= Epsilon
    /\ LastSignal < 0 - last.ceiling
    /\ last.out = 0 - last.ceiling

\* C2: the value written with the delta flag set is the value written with the
\* flag clear minus the dry sample, and with the flag clear it is the wet signal
C2_DeltaIsWetMinusDry ==
    last.applied =>
        /\ last.delta =>
              last.out = FSub(Transform(last.dry, last.gain, last.ceiling,
                                        last.mode, FALSE), last.dry)
        /\ ~last.delta => last.out = LastWet

\* the flag is set, the wet signal differs from the dry one and from zero
C2_Witness ==
    /\ last.applied /\ last.delta
    /\ last.dry # 0 /\ LastWet # 0 /\ LastWet # last.dry
    /\ last.out # LastWet

\* C6: whatever the ceiling, zero and negative included, the ceiling in use is
\* positive, the clamp gets a lower bound that is at most its upper bound, the
\* division has a divisor other than zero, and the clipped value is a finite
\* number
C6_CeilingFloor ==
    last.applied =>
        /\ FLt(0, hard_clip_ceiling(last.ceiling))
        /\ FLt(0, soft_clip_ceiling(last.ceiling))
        /\ FLe(FNeg(hard_clip_ceiling(last.ceiling)), hard_clip_ceiling(last.ceiling))
        /\ LastWet # Panicked
        /\ IsFinite(LastWet)
        /\ ~last.delta => last.out = LastWet

\* a hard clip with a negative ceiling gave a finite value
C6_Witness ==
    /\ last.applied /\ last.mode = "HardClip" /\ last.ceiling < 0
    /\ LastSignal # 0
    /\ IsFinite(last.out)

\* C7: with gain 1.0, mode HardClip and the delta flag clear, a dry sample of
\* magnitude at most the ceiling is written back unchanged
C7_Identity ==
    (/\ last.applied /\ last.gain = One /\ last.mode = "HardClip" /\ ~last.delta
     /\ FLe(FAbs(last.dry), last.ceiling))
        => last.out = last.dry

\* a negative sample right on the ceiling came back unchanged
C7_Witness ==
    /\ last.applied /\ last.gain = One /\ last.mode = "HardClip" /\ ~last.delta
    /\ last.dry < 0 /\ Abs(last.dry) = last.ceiling
    /\ last.out = last.dry

\* C8 as stated: with mode = SoftClip the clipped value is strictly below the
\* ceiling in magnitude (stated here for the ceilings of at least 1e-12)
C8_AsStated ==
    (last.applied /\ last.mode = "SoftClip" /\ ~last.delta
     /\ last.ceiling >= Epsilon)
        => FLt(FAbs(last.out), last.ceiling)

\* C8, amended: with mode = SoftClip the magnitude of the clipped value is at
\* most the ceiling in use, max(ceiling, 1e-12); it is equal to it once
\* signal / ceiling is so large that tanh rounds to 1.0
C8_SoftClipBound ==
    (last.applied /\ last.mode = "SoftClip" /\ ~last.delta)
        => /\ FLe(FAbs(last.out), FMax(last.ceiling, Epsilon))
           /\ (last.ceiling >= Epsilon /\ FAbs(last.out) = last.ceiling)
                 => Abs(FTanh(FDiv(LastSignal, last.ceiling))) = One

\* a finite ratio signal / ceiling for which tanh is exactly 1.0: the clipped
\* value is the ceiling itself
C8_Witness ==
    /\ last.applied /\ last.mode = "SoftClip" /\ ~last.delta
    /\ last.ceiling >= Epsilon
    /\ IsFinite(FDiv(LastSignal, last.ceiling))
    /\ last.out = last.ceiling

\* ------------------------------------------------ claims on the smoothers

Between(a, x, b) == (a <= x /\ x <= b) \/ (b <= x /\ x <= a)
StrictlyBetween(a, x, b) == (a < x /\ x < b) \/ (b < x /\ x < a)

\* C3: a smoother at rest is given a new target, different from its value, and
\* no other: each of the next RampSteps - 1 calls returns a value strictly
\* between the old value and the target and nearer to the target than the call
\* before, and from the RampSteps-th call on the target itself is returned
C3_SingleRamp ==
    \A p \in ParamIds :
        LET h == ramp[p]
            t == smoothed[p].target
        IN  (h.kind = "rest" /\ h.from # t) =>
                /\ (h.calls >= 1 /\ h.calls < RampSteps) =>
                      /\ StrictlyBetween(h.from, h.ret, t)
                      /\ Abs(t - h.ret) < Abs(t - h.prev)
                /\ h.calls >= RampSteps => h.ret = t

\* a ramp of the gain from rest ran to its end and one more call returned the
\* target again, while a later ramp of the threshold from rest is on its way
C3_Witness ==
    /\ ramp.gain.kind = "rest"
    /\ ramp.gain.from # smoothed.gain.target
    /\ ramp.gain.calls = RampSteps + 1
    /\ ramp.gain.prev = smoothed.gain.target
    /\ ramp.gain.ret = smoothed.gain.target
    /\ ramp.threshold.kind = "rest"
    /\ ramp.threshold.calls = RampSteps - 1
    /\ StrictlyBetween(ramp.threshold.from, ramp.threshold.ret,
                       smoothed.threshold.target)

\* C4: a smoother given a new target in the middle of a ramp goes on from the
\* value it had reached: that is its live value until the next call, the first
\* value returned lies between it and the new target, and after RampSteps calls
\* the new target is returned
C4_MidRampRetarget ==
    \A p \in ParamIds :
        LET h == ramp[p]
            t == smoothed[p].target
        IN  h.kind = "mid" =>
                /\ h.calls = 0 => smoothed[p].current = h.from
                /\ h.calls = 1 => Between(h.from, h.ret, t)
                /\ h.calls >= RampSteps => h.ret = t

\* the values a smoother can rest at: the default and the targets
RestValues(p) == {Range[p].default} \cup {ClampPlain(p, v) : v \in TargetInputs}

\* a ramp was interrupted at a value that is neither its start nor its target
\* (no resting value at all), and the first call after that moved on from there
C4_Witness ==
    \E p \in ParamIds :
        /\ ramp[p].kind = "mid"
        /\ ramp[p].from \notin RestValues(p)
        /\ ramp[p].calls = 1
        /\ ramp[p].ret # ramp[p].from

\* C5: the live value of each smoothed parameter, and every value next()
\* returns, lies in the declared range of the parameter
C5_InRange ==
    \A p \in ParamIds :
        /\ smoothed[p].current >= Range[p].min /\ smoothed[p].current <= Range[p].max
        /\ smoothed[p].target >= Range[p].min /\ smoothed[p].target <= Range[p].max
        /\ ramp[p].ret >= Range[p].min /\ ramp[p].ret <= Range[p].max

\* a ramp towards the lower end of the threshold range is under way
C5_Witness ==
    /\ smoothed.threshold.target = ThresholdMin
    /\ smoothed.threshold.steps_left > 0
    /\ ramp.threshold.calls >= 1
    /\ smoothed.threshold.current < ThresholdMax
    /\ smoothed.threshold.current > ThresholdMin

\* ------------------------------------------------------ claims on process()

\* C9: in a block each frame steps the gain smoother once and the threshold
\* smoother once, whatever the number of channels; all samples of a frame are
\* transformed with the gain and the ceiling of that frame; when process
\* returns each smoother has been stepped once per frame of the buffer
C9_OneStepPerFrame ==
    /\ pc = "gain" => blk.adv.gain = loc.f /\ blk.adv.threshold = loc.f
    /\ pc = "threshold" => blk.adv.gain = loc.f + 1 /\ blk.adv.threshold = loc.f
    /\ pc = "sample" =>
          /\ blk.adv.gain = loc.f + 1 /\ blk.adv.threshold = loc.f + 1
          /\ Len(blk.used) = loc.ch
    /\ pc = "return" =>
          blk.adv.gain = loc.nframes /\ blk.adv.threshold = loc.nframes
    /\ \A i \in 1 .. Len(blk.used) :
          /\ blk.used[i].gain = db_to_gain(ramp.gain.ret)
          /\ blk.used[i].ceiling = db_to_gain(ramp.threshold.ret)

\* a block of two frames of two channels is done, during a ramp of the gain
C9_Witness ==
    /\ pc = "return"
    /\ loc.nframes = 2 /\ loc.nchannels = 2
    /\ Len(blk.used) = 2
    /\ blk.adv.gain = 2 /\ blk.adv.threshold = 2
    /\ ramp.gain.ret # smoothed.gain.target

\* C10: every sample of a block is processed with the mode and the delta flag
\* read at the start of the call, also when another thread has changed the
\* parameter in the meantime
C10_ReadOncePerBlock ==
    /\ pc \in {"gain", "threshold", "sample", "return"} =>
          loc.mode = blk.at_start.mode /\ loc.delta = blk.at_start.delta
    /\ \A i \in 1 .. Len(blk.used) :
          /\ blk.used[i].mode = blk.at_start.mode
          /\ blk.used[i].delta = blk.at_start.delta

\* a sample was processed after both parameters had been changed
C10_Witness ==
    /\ blk.overtaken
    /\ Len(blk.used) >= 1
    /\ blk.used[Len(blk.used)].mode = blk.at_start.mode
    /\ blk.used[Len(blk.used)].delta = blk.at_start.delta

====
